---- MODULE Spec2Model ----
(***************************************************************************)
(* Code knowledge graph: the syntax-tree walker (extract.py) and the graph *)
(* loader (load_to_neo4j.py).                                              *)
(*                                                                         *)
(* Strings.  A Python string is modelled by the tuple of its '/'-free      *)
(* segments (the result of splitting it on '/'), so that the loader's test *)
(* "'/' in file" and os.path.normpath can be computed: "foo" is <<"foo">>, *)
(* "a/f.py" is <<"a", "f.py">>, "/api/greet" is <<"", "api", "greet">>.     *)
(* No string of the model holds a backslash (POSIX paths).                 *)
(***************************************************************************)
EXTENDS Integers, Sequences, FiniteSets, TLC

VARIABLES
    \* ---- extract_from_repo ----
    repo,          \* the walk: the files os.walk yields, in its order
    idx,           \* how many files of the walk have been handled
    all_records,   \* all_entities, all_relationships, all_calls (lists)
    result,        \* what analyze returned for the file handled last
    bundle,        \* what extract_from_repo returned (sets), once it has
    xpc,           \* position of the extraction
    \* ---- Neo4jLoader ----
    entities,      \* the list given to create_nodes_and_relationships
    relationships, \*   "
    calls,         \*   "
    store,         \* the graph store: nodes, edges, constraints
    lpc,           \* position of the load
    run,           \* which load of the session this is
    store0,        \* the store when the session began
    snapshot,      \* the store when the first load ended
    attempted,     \* statements issued by the current load
    mode,          \* what the session does
    \* ---- CodeAnalyzer, one visit at a time ----
    ast_tree,      \* the tree ast.parse returned
    at,            \* the node the walk stands at
    analyzer,      \* the CodeAnalyzer's fields
    frames,        \* the locals old_class / old_function of the active handlers
    wpc            \* position of the walk

xvars == <<repo, idx, all_records, result, bundle, xpc>>
lvars == <<entities, relationships, calls, store, lpc, run, store0, snapshot,
           attempted, mode>>
wvars == <<ast_tree, at, analyzer, frames, wpc>>
vars == <<xvars, lvars, wvars>>

\* ------------------------------------------------------------------ bounds
MaxNodes == 4
MaxFiles == 3
MaxMethods == 2
MaxEntities == 2
MaxRels == 1
MaxCalls == 1
MaxInitNodes == 1
MaxMainFiles == 2

\* ----------------------------------------------------------------- strings
Str(s) == <<s>>
None == <<"<None>">>
Truthy(s) == s # None /\ s # <<"">>

\* '/' in s
HasSep(s) == Len(s) >= 2

ToSet(seq) == {seq[i] : i \in DOMAIN seq}
Seqs(S, n) == UNION {[1..k -> S] : k \in 0..n}
Last(s) == s[Len(s)]
Front(s) == SubSeq(s, 1, Len(s) - 1)

\* os.path.join(a, b) for a relative b: a separator is added unless a ends
\* with one (its last segment is empty).
join(a, b) ==
    IF a = <<"">> THEN b
    ELSE IF Last(a) = "" THEN Front(a) \o b
    ELSE a \o b

\* posixpath.normpath on the segments of a path: empty and "." segments go,
\* ".." removes the segment before it (kept when there is none to remove in
\* a relative path, dropped at the root), a leading "/" stays, and the empty
\* path is ".".
RECURSIVE normcomps(_, _, _)
normcomps(segs, acc, abs) ==
    IF segs = <<>> THEN acc
    ELSE LET c == Head(segs) IN
         IF c = "" \/ c = "." THEN normcomps(Tail(segs), acc, abs)
         ELSE IF c # ".." THEN normcomps(Tail(segs), Append(acc, c), abs)
         ELSE IF acc # <<>> /\ Last(acc) # ".." THEN normcomps(Tail(segs), Front(acc), abs)
         ELSE IF abs THEN normcomps(Tail(segs), acc, abs)
         ELSE normcomps(Tail(segs), Append(acc, c), abs)

normpath(p) ==
    LET abs == Len(p) >= 2 /\ p[1] = ""
        comps == normcomps(p, <<>>, abs)
    IN  IF abs THEN <<"">> \o (IF comps = <<>> THEN <<"">> ELSE comps)
        ELSE IF comps = <<>> THEN <<".">>
        ELSE comps

\* CodeAnalyzer.__init__: self.filename
filename_of(filepath) == normpath(filepath)

\* ------------------------------------------------------- syntax trees (ast)
\* Expressions: Name(id), Attribute(value.attr), Constant(value), List(elts),
\* Call(func, args, keywords); any other expression is Other.
Name(id) == [kind |-> "Name", id |-> id]
Attribute(value, attr) == [kind |-> "Attribute", value |-> value, attr |-> attr]
Constant(value) == [kind |-> "Constant", value |-> value]
List(elts) == [kind |-> "List", elts |-> elts]
OtherExpr == [kind |-> "Other"]
keyword(arg, value) == [arg |-> arg, value |-> value]
Call(func, args, keywords) ==
    [kind |-> "Call", func |-> func, args |-> args, keywords |-> keywords]

\* Statements, one record shape for all of them.
Pass ==
    [type |-> "Pass", name |-> None, bases |-> <<>>, args |-> <<>>,
     decorator_list |-> <<>>, body |-> <<>>, names |-> <<>>, module |-> None,
     value |-> OtherExpr]
ClassDef(name, bases, body) ==
    [Pass EXCEPT !.type = "ClassDef", !.name = name, !.bases = bases, !.body = body]
FunctionDef(name, args, decorator_list, body) ==
    [Pass EXCEPT !.type = "FunctionDef", !.name = name, !.args = args,
                 !.decorator_list = decorator_list, !.body = body]
Import(names) == [Pass EXCEPT !.type = "Import", !.names = names]
ImportFrom(module, names) ==
    [Pass EXCEPT !.type = "ImportFrom", !.module = module, !.names = names]
Expr(value) == [Pass EXCEPT !.type = "Expr", !.value = value]
Module(body) == [Pass EXCEPT !.type = "Module", !.body = body]

\* --------------------------------------------------------- CodeAnalyzer
\* The analyzer's fields; the lists are lists (appends keep duplicates).
NewAnalyzer(filename) ==
    [filename |-> filename, entities |-> <<>>, relationships |-> <<>>,
     calls |-> <<>>, api_endpoints |-> <<>>,
     current_class |-> None, current_function |-> None]

AddEntity(st, kind, name, scope) ==
    [st EXCEPT !.entities = Append(@, <<kind, name, scope>>)]
AddRel(st, source, relation, target) ==
    [st EXCEPT !.relationships = Append(@, <<source, relation, target>>)]
AddCall(st, source, target) ==
    [st EXCEPT !.calls = Append(@, <<source, "CALLS", target>>)]

RECURSIVE visit_Import(_, _)
visit_Import(st, names) ==
    IF names = <<>> THEN st
    ELSE visit_Import(
            AddRel(AddEntity(st, "Library", Head(names), st.filename),
                   st.filename, "IMPORTS", Head(names)),
            Tail(names))

RECURSIVE provides(_, _, _)
provides(st, module, names) ==
    IF names = <<>> THEN st
    ELSE provides(
            AddRel(AddEntity(st, "Import", Head(names), st.filename),
                   module, "PROVIDES", Head(names)),
            module, Tail(names))

visit_ImportFrom(st, node) ==
    IF Truthy(node.module)
    THEN provides(
            AddRel(AddEntity(st, "Library", node.module, st.filename),
                   st.filename, "IMPORTS", node.module),
            node.module, node.names)
    ELSE st

\* for base in node.bases
RECURSIVE inherits(_, _, _)
inherits(st, name, bases) ==
    IF bases = <<>> THEN st
    ELSE LET base == Head(bases) IN
         inherits(
            IF base.kind = "Name"
            THEN AddRel(AddEntity(st, "Class", base.id, st.filename),
                        name, "INHERITS_FROM", base.id)
            ELSE st,
            name, Tail(bases))

\* for arg in node.args.args
RECURSIVE parameters(_, _, _)
parameters(st, name, args) ==
    IF args = <<>> THEN st
    ELSE parameters(
            IF Head(args) # Str("self")
            THEN AddRel(AddEntity(st, "Parameter", Head(args), name),
                        name, "ACCEPTS", Head(args))
            ELSE st,
            name, Tail(args))

\* for elt in keyword.value.elts
RECURSIVE methods_of(_, _, _)
\* methods_of leaving the loop after the first element.
methods_of_FirstOnly(st, route_path, elts) ==
    IF elts = <<>> THEN st
    ELSE LET elt == Head(elts) IN
         IF elt.kind = "Constant"
         THEN AddEntity(AddRel(st, route_path, "SUPPORTS", elt.value),
                        "HTTP_Method", elt.value, route_path)
         ELSE st

methods_of(st, route_path, elts) ==
    IF elts = <<>> THEN st
    ELSE LET elt == Head(elts) IN
         methods_of(
            IF elt.kind = "Constant"
            THEN AddEntity(AddRel(st, route_path, "SUPPORTS", elt.value),
                           "HTTP_Method", elt.value, route_path)
            ELSE st,
            route_path, Tail(elts))

\* for keyword in decorator.keywords
RECURSIVE route_keywords(_, _, _)
route_keywords(st, route_path, keywords) ==
    IF keywords = <<>> THEN st
    ELSE LET kw == Head(keywords) IN
         route_keywords(
            IF kw.arg = Str("methods") /\ kw.value.kind = "List"
            THEN methods_of(st, route_path, kw.value.elts)
            ELSE st,
            route_path, Tail(keywords))

\* One decoration of a function: the route pattern, then DECORATED_BY.
decoration(st, name, decorator) ==
    LET st1 ==
            IF /\ decorator.kind = "Call"
               /\ decorator.func.kind = "Attribute"
               /\ decorator.func.attr = Str("route")
               /\ decorator.args # <<>>
               /\ decorator.args[1].kind = "Constant"
            THEN LET route_path == decorator.args[1].value
                     a == [st EXCEPT !.api_endpoints = Append(@, <<name, route_path>>)]
                     b == AddEntity(a, "API_Endpoint", route_path, st.filename)
                     c == AddRel(b, name, "EXPOSES", route_path)
                 IN  route_keywords(c, route_path, decorator.keywords)
            ELSE st
    IN  IF decorator.kind = "Name"
        THEN AddRel(st1, name, "DECORATED_BY", decorator.id)
        ELSE IF decorator.kind = "Attribute"
        THEN AddRel(st1, name, "DECORATED_BY", decorator.attr)
        ELSE st1

\* for decorator in node.decorator_list
RECURSIVE decorations(_, _, _)
decorations(st, name, decorator_list) ==
    IF decorator_list = <<>> THEN st
    ELSE decorations(decoration(st, name, Head(decorator_list)), name,
                     Tail(decorator_list))

RECURSIVE visit_expr(_, _), visit_exprs(_, _), visit_Call(_, _)

\* NodeVisitor.visit on an expression: visit_Call for a call, generic_visit
\* (the sub-expressions, in field order) for the others.
visit_expr(st, e) ==
    IF e.kind = "Call" THEN visit_Call(st, e)
    ELSE IF e.kind = "Attribute" THEN visit_expr(st, e.value)
    ELSE IF e.kind = "List" THEN visit_exprs(st, e.elts)
    ELSE st

visit_exprs(st, es) ==
    IF es = <<>> THEN st ELSE visit_exprs(visit_expr(st, Head(es)), Tail(es))

visit_Call(st, node) ==
    LET cf == st.current_function
        st1 ==
            IF ~Truthy(cf) THEN st
            ELSE IF node.func.kind = "Name" THEN AddCall(st, cf, node.func.id)
            ELSE IF node.func.kind = "Attribute" /\ node.func.value.kind = "Name"
            THEN LET obj_name == node.func.value.id
                     method_name == node.func.attr
                     a == AddCall(st, cf, method_name)
                 IN  IF /\ obj_name = Str("request")
                        /\ method_name \in {Str("json"), Str("args"), Str("get")}
                     THEN AddRel(a, cf, "USES_INPUT",
                                 Str(obj_name[1] \o "." \o method_name[1]))
                     ELSE IF /\ obj_name = Str("requests")
                             /\ method_name \in {Str("get"), Str("post"),
                                                 Str("put"), Str("delete")}
                     THEN AddRel(a, cf, "MAKES_REQUEST", method_name)
                     ELSE a
            ELSE st
        \* generic_visit(node): func, args, keywords
        st2 == visit_expr(st1, node.func)
        st3 == visit_exprs(st2, node.args)
    IN  visit_exprs(st3, [i \in DOMAIN node.keywords |-> node.keywords[i].value])

RECURSIVE visit(_, _), visit_body(_, _), generic_visit(_, _),
          visit_ClassDef(_, _), visit_FunctionDef(_, _)

\* The statements of a body, in order.
visit_body(st, body) ==
    IF body = <<>> THEN st ELSE visit_body(visit(st, Head(body)), Tail(body))

\* NodeVisitor.generic_visit on a statement: its child nodes in field order
\* (bases, body, decorator_list, value).
generic_visit(st, node) ==
    LET st1 == visit_exprs(st, node.bases)
        st2 == visit_body(st1, node.body)
        st3 == visit_exprs(st2, node.decorator_list)
    IN  visit_expr(st3, node.value)

\* visit_ClassDef without "self.current_class = old_class".
visit_ClassDef_NoRestore(st, node) ==
    LET st1 == AddRel(AddEntity(st, "Class", node.name, st.filename),
                      st.filename, "CONTAINS", node.name)
        st2 == inherits(st1, node.name, node.bases)
    IN  generic_visit([st2 EXCEPT !.current_class = node.name], node)

visit_ClassDef(st, node) ==
    LET st1 == AddRel(AddEntity(st, "Class", node.name, st.filename),
                      st.filename, "CONTAINS", node.name)
        st2 == inherits(st1, node.name, node.bases)
        old_class == st2.current_class
        st3 == generic_visit([st2 EXCEPT !.current_class = node.name], node)
    IN  [st3 EXCEPT !.current_class = old_class]

\* visit_FunctionDef taking every function nested in something for a method
\* (it tests the enclosing function, not the enclosing class).
visit_FunctionDef_ByFunction(st, node) ==
    LET old_function == st.current_function
        st0 == [st EXCEPT !.current_function = node.name]
        st1 == IF Truthy(st0.current_class) \/ Truthy(old_function)
               THEN AddRel(AddEntity(st0, "Method", node.name, st0.current_class),
                           st0.current_class, "DEFINES", node.name)
               ELSE AddRel(AddEntity(st0, "Function", node.name, st0.filename),
                           st0.filename, "CONTAINS", node.name)
        st2 == parameters(st1, node.name, node.args)
        st3 == decorations(st2, node.name, node.decorator_list)
        st4 == generic_visit(st3, node)
    IN  [st4 EXCEPT !.current_function = old_function]

visit_FunctionDef(st, node) ==
    LET old_function == st.current_function
        st0 == [st EXCEPT !.current_function = node.name]
        st1 == IF Truthy(st0.current_class)
               THEN AddRel(AddEntity(st0, "Method", node.name, st0.current_class),
                           st0.current_class, "DEFINES", node.name)
               ELSE AddRel(AddEntity(st0, "Function", node.name, st0.filename),
                           st0.filename, "CONTAINS", node.name)
        st2 == parameters(st1, node.name, node.args)
        st3 == decorations(st2, node.name, node.decorator_list)
        st4 == generic_visit(st3, node)
    IN  [st4 EXCEPT !.current_function = old_function]

\* NodeVisitor.visit: the handler named after the node's class, or
\* generic_visit when the analyzer has none.
visit(st, node) ==
    IF node.type = "Import" THEN visit_Import(st, node.names)
    ELSE IF node.type = "ImportFrom" THEN visit_ImportFrom(st, node)
    ELSE IF node.type = "ClassDef" THEN visit_ClassDef(st, node)
    ELSE IF node.type = "FunctionDef" THEN visit_FunctionDef(st, node)
    ELSE generic_visit(st, node)

\* _find_flask_app: code.flask_app is the name the regular expression finds
\* in the text (None when it finds none).
find_flask_app(st, code) ==
    IF code.flask_app # None
    THEN AddRel(AddEntity(st, "WebApp", code.flask_app, st.filename),
                st.filename, "DEFINES", code.flask_app)
    ELSE st

EmptyResult ==
    [entities |-> {}, relationships |-> {}, calls |-> {}, api_endpoints |-> {}]

\* CodeAnalyzer.analyze.  code.syntax_ok says whether ast.parse accepts the
\* text; list(set(...)) is modelled by the set.
analyze(st, code) ==
    IF code.syntax_ok
    THEN LET done == find_flask_app(visit(st, code.tree), code)
         IN  [entities |-> ToSet(done.entities),
              relationships |-> ToSet(done.relationships),
              calls |-> ToSet(done.calls),
              api_endpoints |-> ToSet(done.api_endpoints)]
    ELSE EmptyResult

\* ------------------------------------------------ the walk, step by step
\* self.visit(tree), one handler entry or one handler return at a time.
\* `at` is the path (child indices through the bodies) to the node whose
\* handler is entered next (wpc = "visit") or returns next (wpc = "leave");
\* frames holds the old_class / old_function local of every declaration
\* handler that is active, the innermost last.
WalkIdle ==
    /\ ast_tree = Module(<<>>) /\ at = <<>> /\ analyzer = NewAnalyzer(None)
    /\ frames = <<>> /\ wpc = "idle"

RECURSIVE NodeAt(_, _)
NodeAt(node, p) ==
    IF p = <<>> THEN node ELSE NodeAt(node.body[Head(p)], Tail(p))

\* Whether the node's handler walks the node's children (generic_visit):
\* visit_Import and visit_ImportFrom do not.
descends(node) == node.type \notin {"Import", "ImportFrom"}

\* generic_visit after the body: decorator_list, value.
after_body(st, node) ==
    visit_expr(visit_exprs(st, node.decorator_list), node.value)

\* visit_ClassDef up to the walk of the body.
enter_ClassDef(st, node) ==
    LET st1 == AddRel(AddEntity(st, "Class", node.name, st.filename),
                      st.filename, "CONTAINS", node.name)
        st2 == inherits(st1, node.name, node.bases)
    IN  visit_exprs([st2 EXCEPT !.current_class = node.name], node.bases)

\* visit_ClassDef from the end of the body: self.current_class = old_class.
leave_ClassDef(st, node, old_class) ==
    [after_body(st, node) EXCEPT !.current_class = old_class]

\* visit_FunctionDef up to the walk of the body.
enter_FunctionDef(st, node) ==
    LET st0 == [st EXCEPT !.current_function = node.name]
        st1 == IF Truthy(st0.current_class)
               THEN AddRel(AddEntity(st0, "Method", node.name, st0.current_class),
                           st0.current_class, "DEFINES", node.name)
               ELSE AddRel(AddEntity(st0, "Function", node.name, st0.filename),
                           st0.filename, "CONTAINS", node.name)
        st2 == parameters(st1, node.name, node.args)
        st3 == decorations(st2, node.name, node.decorator_list)
    IN  visit_exprs(st3, node.bases)

\* visit_FunctionDef without "self.current_function = old_function".
leave_FunctionDef_NoRestore(st, node, old_function) ==
    after_body(st, node)

\* visit_FunctionDef from the end of the body.
leave_FunctionDef(st, node, old_function) ==
    [after_body(st, node) EXCEPT !.current_function = old_function]

\* generic_visit reaches the body: its first statement is visited, or the
\* handler goes on past an empty body.
Descend(node) ==
    IF node.body # <<>>
    THEN at' = Append(at, 1) /\ wpc' = "visit"
    ELSE at' = at /\ wpc' = "leave"

\* The handler of the node at `at` returned: the next statement of the same
\* body is visited, or the enclosing handler goes on, or the walk is over.
Return ==
    IF at = <<>> THEN at' = at /\ wpc' = "done"
    ELSE IF Last(at) < Len(NodeAt(ast_tree, Front(at)).body)
    THEN at' = [at EXCEPT ![Len(at)] = @ + 1] /\ wpc' = "visit"
    ELSE at' = Front(at) /\ wpc' = "leave"

VisitClassDef ==
    /\ wpc = "visit" /\ NodeAt(ast_tree, at).type = "ClassDef"
    /\ frames' = Append(frames, analyzer.current_class)
    /\ analyzer' = enter_ClassDef(analyzer, NodeAt(ast_tree, at))
    /\ Descend(NodeAt(ast_tree, at))
    /\ UNCHANGED <<ast_tree, xvars, lvars>>

LeaveClassDef ==
    /\ wpc = "leave" /\ NodeAt(ast_tree, at).type = "ClassDef"
    /\ analyzer' = leave_ClassDef(analyzer, NodeAt(ast_tree, at), Last(frames))
    /\ frames' = Front(frames)
    /\ Return
    /\ UNCHANGED <<ast_tree, xvars, lvars>>

VisitFunctionDef ==
    /\ wpc = "visit" /\ NodeAt(ast_tree, at).type = "FunctionDef"
    /\ frames' = Append(frames, analyzer.current_function)
    /\ analyzer' = enter_FunctionDef(analyzer, NodeAt(ast_tree, at))
    /\ Descend(NodeAt(ast_tree, at))
    /\ UNCHANGED <<ast_tree, xvars, lvars>>

LeaveFunctionDef ==
    /\ wpc = "leave" /\ NodeAt(ast_tree, at).type = "FunctionDef"
    /\ analyzer' = leave_FunctionDef(analyzer, NodeAt(ast_tree, at), Last(frames))
    /\ frames' = Front(frames)
    /\ Return
    /\ UNCHANGED <<ast_tree, xvars, lvars>>

\* Any other node: its own handler when it has one (the imports, which do
\* not go into the node), else generic_visit.
VisitOther ==
    /\ wpc = "visit" /\ NodeAt(ast_tree, at).type \notin {"ClassDef", "FunctionDef"}
    /\ LET node == NodeAt(ast_tree, at) IN
          IF descends(node)
          THEN analyzer' = visit_exprs(analyzer, node.bases) /\ Descend(node)
          ELSE analyzer' = visit(analyzer, node) /\ Return
    /\ UNCHANGED <<ast_tree, frames, xvars, lvars>>

LeaveOther ==
    /\ wpc = "leave" /\ NodeAt(ast_tree, at).type \notin {"ClassDef", "FunctionDef"}
    /\ analyzer' = after_body(analyzer, NodeAt(ast_tree, at))
    /\ Return
    /\ UNCHANGED <<ast_tree, frames, xvars, lvars>>

\* ---------------------------------------------------- extract_from_repo
\* A file of the walk: the directory os.walk reports (root), the file's name
\* (stem and suffix), whether it can be read and decoded, and its text
\* (whether it parses, the tree it parses to, what the Flask pattern finds).
File(root, stem, suffix, readable, code) ==
    [root |-> root, stem |-> stem, suffix |-> suffix, readable |-> readable,
     code |-> code]
Code(syntax_ok, tree, flask_app) ==
    [syntax_ok |-> syntax_ok, tree |-> tree, flask_app |-> flask_app]

\* file.endswith(".py")
is_py(f) == f.suffix = ".py"
\* os.path.join(root, file)
file_path(f) == join(f.root, <<f.stem \o f.suffix>>)

\* extract_from_file: raised when open/read fails, else what analyze returns.
extract_from_file(f) ==
    IF ~f.readable THEN [raised |-> TRUE, result |-> EmptyResult]
    ELSE [raised |-> FALSE,
          result |-> analyze(NewAnalyzer(filename_of(file_path(f))), f.code)]

\* The accumulators of extract_from_repo (the set of what each list holds).
extend(all, res) ==
    [entities |-> all.entities \cup res.entities,
     relationships |-> all.relationships \cup res.relationships,
     calls |-> all.calls \cup res.calls,
     api_endpoints |-> all.api_endpoints \cup res.api_endpoints]

\* process_file with the failure of a file left uncaught.
process_file_Uncaught(all, f) ==
    IF ~is_py(f) THEN [all |-> all, result |-> EmptyResult, crashed |-> FALSE]
    ELSE IF ~f.readable \/ ~f.code.syntax_ok
    THEN [all |-> all, result |-> EmptyResult, crashed |-> TRUE]
    ELSE LET r == extract_from_file(f) IN
         [all |-> extend(all, r.result), result |-> r.result, crashed |-> FALSE]

\* One file of the walk: the loop body of extract_from_repo.  crashed is
\* whether an exception leaves the loop (the try/except lets none out).
process_file(all, f) ==
    IF ~is_py(f) THEN [all |-> all, result |-> EmptyResult, crashed |-> FALSE]
    ELSE LET r == extract_from_file(f) IN
         IF r.raised THEN [all |-> all, result |-> EmptyResult, crashed |-> FALSE]
         ELSE [all |-> extend(all, r.result), result |-> r.result, crashed |-> FALSE]

\* ---- the loader at rest (extraction specifications leave it alone) ----
EmptyStore == [nodes |-> {}, edges |-> {}, constraints |-> {}, next |-> 1]
LoaderIdle ==
    /\ entities = <<>> /\ relationships = <<>> /\ calls = <<>>
    /\ store = EmptyStore /\ store0 = EmptyStore /\ snapshot = EmptyStore
    /\ lpc = "idle" /\ run = 0 /\ attempted = 0 /\ mode = "extract"

ExtractIdle ==
    /\ repo = <<>> /\ idx = 0 /\ all_records = EmptyResult
    /\ result = EmptyResult /\ bundle = EmptyResult /\ xpc = "idle"

ExtractInit(r) ==
    /\ repo = r
    /\ idx = 0
    /\ all_records = EmptyResult
    /\ result = EmptyResult
    /\ bundle = EmptyResult
    /\ xpc = "walk"
    /\ WalkIdle

\* One iteration of the loop over the files of the walk: a file without the
\* suffix is passed over; the others are read and analyzed, and what
\* extract_from_file raises is caught.
ProcessFile ==
    /\ xpc = "walk" /\ idx < Len(repo)
    /\ LET p == process_file(all_records, repo[idx + 1]) IN
        /\ all_records' = p.all
        /\ result' = p.result
        /\ xpc' = IF p.crashed THEN "crashed" ELSE "walk"
    /\ idx' = idx + 1
    /\ UNCHANGED <<repo, bundle, lvars, wvars>>

\* return {...}: the lists without their duplicates.
ReturnBundle ==
    /\ xpc = "walk" /\ idx = Len(repo)
    /\ bundle' = all_records
    /\ xpc' = "returned"
    /\ UNCHANGED <<repo, idx, all_records, result, lvars, wvars>>

\* ============================================================ Neo4jLoader
\* The graph store.  A node has an identity (id), one label and the
\* properties name and file (None for a property it lacks); an edge joins
\* two nodes by their ids; constraints holds the labels whose name property
\* is under a uniqueness constraint; next is the identity the next node gets.
NewNode(st, label, name, file) ==
    [st EXCEPT !.nodes = @ \cup {[id |-> st.next, label |-> label,
                                  name |-> name, file |-> file]},
               !.next = @ + 1]

\* create_schema_constraints: node_types
node_types == <<"File", "Function", "Library", "Class", "Method">>

\* CREATE CONSTRAINT ... REQUIRE n.name IS UNIQUE: the store refuses it when
\* two nodes of the label already share a name; the refusal is caught.
RECURSIVE create_schema_constraints(_, _)
create_schema_constraints(st, types) ==
    IF types = <<>> THEN st
    ELSE LET t == Head(types)
             unique == \A a, b \in st.nodes :
                          (a.label = t /\ b.label = t /\ a.name = b.name) => a = b
         IN  create_schema_constraints(
                IF unique THEN [st EXCEPT !.constraints = @ \cup {t}] ELSE st,
                Tail(types))

\* create_file_nodes: the scopes that look like a path
files_of(ents) == {e[3] : e \in {x \in ToSet(ents) : HasSep(x[3])}}

\* MERGE (f:File {name: $name})
merge_file(st, name) ==
    IF \E n \in st.nodes : n.label = "File" /\ n.name = name THEN st
    ELSE NewNode(st, "File", name, None)

\* create_file_nodes: one MERGE per file of the set (their order does not
\* change what the store ends with).
RECURSIVE merge_files(_, _)
merge_files(st, fs) ==
    IF fs = {} THEN st
    ELSE LET f == CHOOSE x \in fs : TRUE IN merge_files(merge_file(st, f), fs \ {f})

create_file_nodes(st, ents) == merge_files(st, files_of(ents))

\* merge_entity as CREATE: a new node whether or not one matches.
merge_entity_Create(st, e) ==
    IF e[1] \in st.constraints /\ \E n \in st.nodes : n.label = e[1] /\ n.name = e[2]
    THEN [store |-> st, raised |-> TRUE]
    ELSE [store |-> NewNode(st, e[1], e[2], e[3]), raised |-> FALSE]

\* MERGE (n:<entity_type> {name: $name, file: $file}): the node that matches
\* the label and both properties, or a new one; the store raises when the new
\* node would break a uniqueness constraint.
merge_entity(st, e) ==
    IF \E n \in st.nodes : n.label = e[1] /\ n.name = e[2] /\ n.file = e[3]
    THEN [store |-> st, raised |-> FALSE]
    ELSE IF e[1] \in st.constraints /\ \E n \in st.nodes : n.label = e[1] /\ n.name = e[2]
    THEN [store |-> st, raised |-> TRUE]
    ELSE [store |-> NewNode(st, e[1], e[2], e[3]), raised |-> FALSE]

\* Determine target type from entities: the first entity of that name.
RECURSIVE target_type(_, _)
target_type(ents, target) ==
    IF ents = <<>> THEN None
    ELSE IF Head(ents)[2] = target THEN Str(Head(ents)[1])
    ELSE target_type(Tail(ents), target)

\* The query chosen for a relationship: the labels its MATCH asks of the two
\* nodes ("*" for any), or NoQuery (query stays None).
AnyLabel == "*"
NoQuery == [a |-> "", b |-> "", type |-> ""]
query_for(ents, rel) ==
    IF rel[2] = "CONTAINS"
    THEN LET tt == target_type(ents, rel[3]) IN
         [a |-> "File", b |-> IF Truthy(tt) THEN tt[1] ELSE AnyLabel, type |-> "CONTAINS"]
    ELSE IF rel[2] = "IMPORTS" THEN [a |-> "File", b |-> "Library", type |-> "IMPORTS"]
    ELSE IF rel[2] = "DEFINES" THEN [a |-> "Class", b |-> "Method", type |-> "DEFINES"]
    ELSE NoQuery

\* MATCH (a:<A> {name: $source}), (b:<B> {name: $target})
\* MERGE (a)-[r:<TYPE>]->(b): an edge for every matched pair that lacks one.
Matching(st, labels, name) ==
    {n \in st.nodes : (AnyLabel \in labels \/ n.label \in labels) /\ n.name = name}
merge_edges(st, as, type, bs) ==
    [st EXCEPT !.edges = @ \cup {[src |-> a.id, type |-> type, dst |-> b.id] :
                                    a \in as, b \in bs}]

\* One relationship of the list.
merge_relationship(st, ents, rel) ==
    LET q == query_for(ents, rel) IN
    IF q = NoQuery THEN st
    ELSE merge_edges(st, Matching(st, {q.a}, rel[1]), q.type, Matching(st, {q.b}, rel[3]))

\* One call of the list.
merge_call(st, call) ==
    IF call[2] = "CALLS"
    THEN merge_edges(st, Matching(st, {"Function", "Method"}, call[1]), "CALLS",
                     Matching(st, {"Function", "Method", "Library"}, call[3]))
    ELSE st

\* The three loops of create_nodes_and_relationships.  Each runs its list in
\* order; fault is the position at which the store fails for a reason of its
\* own (0: it does not).  No statement is in a try block, so what run_query
\* raises leaves the loop: at is the position reached, raised whether an
\* exception ended it.
RECURSIVE entity_step(_, _, _, _)
entity_step(st, ents, k, fault) ==
    IF k > Len(ents) THEN [store |-> st, raised |-> FALSE, at |-> Len(ents)]
    ELSE IF k = fault THEN [store |-> st, raised |-> TRUE, at |-> k]
    ELSE LET m == merge_entity(st, ents[k]) IN
         IF m.raised THEN [store |-> st, raised |-> TRUE, at |-> k]
         ELSE entity_step(m.store, ents, k + 1, fault)

RECURSIVE relationship_step(_, _, _, _, _)
relationship_step(st, ents, rels, k, fault) ==
    IF k > Len(rels) THEN [store |-> st, raised |-> FALSE, at |-> Len(rels)]
    ELSE IF k = fault /\ query_for(ents, rels[k]) # NoQuery
    THEN [store |-> st, raised |-> TRUE, at |-> k]
    ELSE relationship_step(merge_relationship(st, ents, rels[k]), ents, rels, k + 1, fault)

RECURSIVE call_step(_, _, _, _)
call_step(st, cs, k, fault) ==
    IF k > Len(cs) THEN [store |-> st, raised |-> FALSE, at |-> Len(cs)]
    ELSE IF k = fault /\ cs[k][2] = "CALLS"
    THEN [store |-> st, raised |-> TRUE, at |-> k]
    ELSE call_step(merge_call(st, cs[k]), cs, k + 1, fault)

\* Where the store may fail on its own: nowhere unless the session injects
\* faults.
Faults(list) == IF mode = "fault" THEN 0..Len(list) ELSE {0}

\* ---- the load, phase by phase ----
LoadInit(es, rs, cs, st, m) ==
    /\ entities = es /\ relationships = rs /\ calls = cs
    /\ store = st /\ store0 = st /\ snapshot = st
    /\ lpc = "start" /\ run = 1 /\ attempted = 0 /\ mode = m

CreateSchemaConstraints ==
    /\ lpc = "start"
    /\ store' = create_schema_constraints(store, node_types)
    /\ lpc' = "files"
    /\ attempted' = 0
    /\ UNCHANGED <<entities, relationships, calls, run, store0, snapshot, mode, xvars, wvars>>

CreateFileNodes ==
    /\ lpc = "files"
    /\ store' = create_file_nodes(store, entities)
    /\ lpc' = "entities"
    /\ UNCHANGED <<entities, relationships, calls, run, store0, snapshot, attempted,
                   mode, xvars, wvars>>

\* Step 1: Create all Nodes
EntityStep ==
    /\ lpc = "entities"
    /\ \E fault \in Faults(entities) :
        LET r == entity_step(store, entities, 1, fault) IN
        /\ store' = r.store
        /\ lpc' = IF r.raised THEN "raised" ELSE "relationships"
        /\ attempted' = r.at
    /\ UNCHANGED <<entities, relationships, calls, run, store0, snapshot, mode, xvars, wvars>>

\* Step 2: Create Relationships from the relationships list
RelationshipStep ==
    /\ lpc = "relationships"
    /\ \E fault \in Faults(relationships) :
        LET r == relationship_step(store, entities, relationships, 1, fault) IN
        /\ store' = r.store
        /\ lpc' = IF r.raised THEN "raised" ELSE "calls"
        /\ attempted' = Len(entities) + r.at
    /\ UNCHANGED <<entities, relationships, calls, run, store0, snapshot, mode, xvars, wvars>>

\* Step 3: Create Function CALLS Relationships
CallStep ==
    /\ lpc = "calls"
    /\ \E fault \in Faults(calls) :
        LET r == call_step(store, calls, 1, fault) IN
        /\ store' = r.store
        /\ lpc' = IF r.raised THEN "raised" ELSE "verify"
        /\ attempted' = Len(entities) + Len(relationships) + r.at
    /\ UNCHANGED <<entities, relationships, calls, run, store0, snapshot, mode, xvars, wvars>>

\* verify_relationships: counts and prints, the store is only read.
VerifyRelationships ==
    /\ lpc = "verify"
    /\ lpc' = "done"
    /\ UNCHANGED <<entities, relationships, calls, store, run, store0, snapshot,
                   attempted, mode, xvars, wvars>>

LoadEnded == lpc \in {"done", "raised"}

\* The same bundle is loaded a second time, right after the first load.
LoadAgain ==
    /\ LoadEnded /\ run = 1 /\ mode = "load"
    /\ snapshot' = store
    /\ run' = 2 /\ lpc' = "start" /\ mode' = "again"
    /\ UNCHANGED <<entities, relationships, calls, store, store0, attempted, xvars, wvars>>

\* The same records are loaded in another order into the store as it was
\* before the first load (list(set(...)) fixes no order).
Perms(seq) ==
    {p \in [DOMAIN seq -> ToSet(seq)] :
        \E f \in [DOMAIN seq -> DOMAIN seq] :
            /\ \A i, j \in DOMAIN seq : i # j => f[i] # f[j]
            /\ p = [i \in DOMAIN seq |-> seq[f[i]]]}
LoadReordered ==
    /\ LoadEnded /\ run = 1 /\ mode = "load"
    /\ snapshot' = store
    /\ store' = store0
    /\ entities' \in Perms(entities)
    /\ relationships' \in Perms(relationships)
    /\ calls' \in Perms(calls)
    /\ <<entities', relationships', calls'>> # <<entities, relationships, calls>>
    /\ run' = 2 /\ lpc' = "start" /\ mode' = "reordered"
    /\ UNCHANGED <<store0, attempted, xvars, wvars>>

\* ------------------------------------------------------------ the inputs
\* Declarations nested in each other: every forest of at most MaxNodes class
\* and function declarations named from DeclLabels.
DeclLabels ==
    {[type |-> "FunctionDef", name |-> Str("f")],
     [type |-> "FunctionDef", name |-> Str("m")],
     [type |-> "ClassDef", name |-> Str("C")]}

MkDecl(l, body) ==
    IF l.type = "ClassDef" THEN ClassDef(l.name, <<>>, body)
    ELSE FunctionDef(l.name, <<>>, <<>>, body)

RECURSIVE Forests(_)
Forests(n) ==
    IF n = 0 THEN {<<>>}
    ELSE UNION {{<<MkDecl(l, b)>> \o r :
                    l \in DeclLabels, b \in Forests(k - 1), r \in Forests(n - k)} :
                k \in 1..n}

NestModules == {Module(b) : b \in UNION {Forests(n) : n \in 0..MaxNodes}}

Roots == {<<".">>, <<"app_repo">>, <<".", "app_repo", "api_service">>, <<"", "srv", "">>}

\* One function (or method) carrying one decoration.
MethodElts == {Constant(Str("GET")), Constant(Str("POST")), Name(Str("VERB"))}
RoutePaths == {<<"", "api", "greet">>}
DecoKeywords ==
    {<<>>, <<keyword(Str("methods"), OtherExpr)>>,
     <<keyword(Str("strict"), List(<<Constant(Str("GET"))>>))>>}
    \cup {<<keyword(Str("methods"), List(elts))>> : elts \in Seqs(MethodElts, MaxMethods)}
DecoFuncs ==
    {Name(Str("route")), Attribute(Name(Str("app")), Str("route")),
     Attribute(Name(Str("app")), Str("get"))}
DecoArgs ==
    {<<>>, <<Name(Str("path"))>>} \cup {<<Constant(p)>> : p \in RoutePaths}
Decorators ==
    {Name(Str("login")), Attribute(Name(Str("app")), Str("route"))}
    \cup {Call(fn, as, kws) : fn \in DecoFuncs, as \in DecoArgs, kws \in DecoKeywords}

RouteModules ==
    {Module(<<FunctionDef(Str("f"), as, <<d>>, <<>>)>>) :
        as \in {<<>>, <<Str("x")>>}, d \in Decorators}
    \cup {Module(<<ClassDef(Str("C"), <<Name(Str("Base"))>>,
                            <<FunctionDef(Str("f"), <<Str("self")>>, <<d>>, <<>>)>>)>>) :
            d \in Decorators}

\* Small files for walks of several files.
fBody ==
    <<Import(<<Str("os")>>),
      FunctionDef(Str("f"), <<Str("x")>>, <<>>, <<Expr(Call(Name(Str("g")), <<>>, <<>>))>>)>>
cBody ==
    <<ClassDef(Str("C"), <<>>, <<FunctionDef(Str("m"), <<Str("self")>>, <<>>, <<>>)>>)>>
FileVariants ==
    {[suffix |-> ".py", readable |-> TRUE, code |-> Code(TRUE, Module(fBody), None)],
     [suffix |-> ".py", readable |-> TRUE, code |-> Code(TRUE, Module(cBody), Str("app"))],
     [suffix |-> ".py", readable |-> TRUE, code |-> Code(FALSE, Module(<<>>), None)],
     [suffix |-> ".py", readable |-> FALSE, code |-> Code(TRUE, Module(fBody), None)],
     [suffix |-> ".txt", readable |-> TRUE, code |-> Code(FALSE, Module(<<>>), None)]}
Stems == {"a", "b", "c"}
RepoFiles ==
    {File(<<"app_repo">>, st, v.suffix, v.readable, v.code) : st \in Stems, v \in FileVariants}
\* The files of one walk have different paths.
Repos ==
    {r \in Seqs(RepoFiles, MaxFiles) :
        \A i, j \in DOMAIN r : i # j => r[i].stem # r[j].stem}

InitNest ==
    \E t \in NestModules, root \in Roots :
        ExtractInit(<<File(root, "f", ".py", TRUE, Code(TRUE, t, None))>>)
InitRoute ==
    \E t \in RouteModules :
        ExtractInit(<<File(<<"app_repo">>, "f", ".py", TRUE, Code(TRUE, t, None))>>)
InitRepo == \E r \in Repos : ExtractInit(r)

Init == (InitNest \/ InitRoute \/ InitRepo) /\ LoaderIdle
Next == ProcessFile \/ ReturnBundle
Spec == Init /\ [][Next]_vars

\* ---- the walk of one tree, step by step ----
WalkTrees == NestModules \cup RouteModules \cup {Module(fBody), Module(cBody)}
InitWalk ==
    \E t \in WalkTrees :
        /\ ast_tree = t /\ at = <<>> /\ frames = <<>> /\ wpc = "visit"
        /\ analyzer = NewAnalyzer(filename_of(<<"app_repo", "f.py">>))
        /\ ExtractIdle /\ LoaderIdle
NextWalk ==
    \/ VisitClassDef \/ LeaveClassDef \/ VisitFunctionDef \/ LeaveFunctionDef
    \/ VisitOther \/ LeaveOther
SpecWalk == InitWalk /\ [][NextWalk]_vars

\* ---- the loader's inputs: any bundle, any store ----
PathA == <<"a", "f.py">>
PathB == <<"g.py">>
LoadEntities ==
    {<<k, Str("foo"), f>> : k \in {"Class", "Function", "Library"}, f \in {PathA, PathB}}
    \cup {<<"Method", Str("bar"), Str("foo")>>, <<"Parameter", Str("bar"), Str("foo")>>}
LoadRels ==
    {<<PathA, "CONTAINS", Str("foo")>>, <<PathA, "CONTAINS", Str("bar")>>,
     <<PathA, "IMPORTS", Str("foo")>>, <<Str("foo"), "DEFINES", Str("bar")>>,
     <<Str("foo"), "INHERITS_FROM", Str("foo")>>, <<Str("foo"), "ACCEPTS", Str("bar")>>}
LoadCalls == {<<Str("foo"), "CALLS", Str("foo")>>, <<Str("bar"), "CALLS", Str("foo")>>}
StoreContents ==
    {[label |-> "File", name |-> PathA, file |-> None],
     [label |-> "Library", name |-> Str("foo"), file |-> PathB],
     [label |-> "Class", name |-> Str("foo"), file |-> PathA],
     [label |-> "Parameter", name |-> Str("bar"), file |-> Str("foo")]}
StoreOf(contents, constraints) ==
    [nodes |-> {[id |-> i, label |-> contents[i].label, name |-> contents[i].name,
                 file |-> contents[i].file] : i \in DOMAIN contents},
     edges |-> {}, constraints |-> constraints, next |-> Len(contents) + 1]
\* A store keeps the constraints it was given only while its nodes obey them.
Obeys(st) ==
    \A a, b \in st.nodes :
        (a.label \in st.constraints /\ a.label = b.label /\ a.name = b.name) => a = b
InitStores ==
    {st \in {StoreOf(c, k) : c \in Seqs(StoreContents, MaxInitNodes),
                             k \in {{}, ToSet(node_types)}} : Obeys(st)}

InitLoad ==
    \E es \in Seqs(LoadEntities, MaxEntities), rs \in Seqs(LoadRels, MaxRels),
       cs \in Seqs(LoadCalls, MaxCalls), st \in InitStores :
        /\ LoadInit(es, rs, cs, st, "load")
        /\ ExtractIdle /\ WalkIdle
InitFault ==
    \E es \in Seqs(LoadEntities, MaxEntities), rs \in Seqs(LoadRels, MaxRels),
       cs \in Seqs(LoadCalls, MaxCalls) :
        /\ LoadInit(es, rs, cs, EmptyStore, "fault")
        /\ ExtractIdle /\ WalkIdle

Load ==
    \/ CreateSchemaConstraints \/ CreateFileNodes \/ EntityStep
    \/ RelationshipStep \/ CallStep \/ VerifyRelationships
NextLoad == Load \/ LoadAgain \/ LoadReordered
SpecLoad == InitLoad /\ [][NextLoad]_vars
SpecFault == InitFault /\ [][Load]_vars

\* ---- main(): extract app_repo, clear the store, load ----
gBody == <<FunctionDef(Str("f"), <<>>, <<>>, <<Expr(Call(Name(Str("f")), <<>>, <<>>))>>)>>
MainFiles ==
    {File(root, st, ".py", TRUE, code) :
        root \in {<<".">>, <<"app_repo">>}, st \in {"a", "b"},
        code \in {Code(TRUE, Module(gBody), None), Code(TRUE, Module(cBody), None),
                  Code(FALSE, Module(<<>>), None)}}
MainRepos ==
    {r \in Seqs(MainFiles, MaxMainFiles) :
        /\ \A i, j \in DOMAIN r : i # j => r[i].stem # r[j].stem
        /\ \A i, j \in DOMAIN r : r[i].root = r[j].root}
InitMain ==
    \E r \in MainRepos, k \in {{}, ToSet(node_types)} :
        /\ ExtractInit(r)
        /\ entities = <<>> /\ relationships = <<>> /\ calls = <<>>
        /\ store = StoreOf(<<>>, k) /\ store0 = store /\ snapshot = store
        /\ lpc = "idle" /\ run = 0 /\ attempted = 0 /\ mode = "main"

\* Every list that holds the elements of a set once each.
Orders(S) == {q \in [1..Cardinality(S) -> S] : ToSet(q) = S}

\* Nothing was extracted: main returns before it opens the store.
MainEmpty ==
    /\ xpc = "returned" /\ lpc = "idle"
    /\ bundle.entities = {} /\ bundle.relationships = {}
    /\ lpc' = "skipped"
    /\ UNCHANGED <<entities, relationships, calls, store, run, store0, snapshot,
                   attempted, mode, xvars, wvars>>

\* MATCH (n) DETACH DELETE n, then create_nodes_and_relationships on the
\* lists of the bundle, in the order list(set(...)) gave them.
MainLoad ==
    /\ xpc = "returned" /\ lpc = "idle"
    /\ ~(bundle.entities = {} /\ bundle.relationships = {})
    /\ store' = [store EXCEPT !.nodes = {}, !.edges = {}]
    /\ store0' = store'
    /\ snapshot' = store'
    /\ entities' \in Orders(bundle.entities)
    /\ relationships' \in Orders(bundle.relationships)
    /\ calls' \in Orders(bundle.calls)
    /\ lpc' = "start" /\ run' = 1
    /\ UNCHANGED <<attempted, mode, xvars, wvars>>

NextMain == ProcessFile \/ ReturnBundle \/ MainEmpty \/ MainLoad \/ Load
SpecMain == InitMain /\ [][NextMain]_vars

\* =================================================================== claims
\* The file handled last, and whether the walker produced records for it.
LastFile == repo[idx]
Analyzed ==
    /\ xpc = "walk" /\ idx >= 1
    /\ is_py(LastFile) /\ LastFile.readable /\ LastFile.code.syntax_ok
LastName == filename_of(file_path(LastFile))

\* The class and function declarations of a body with, for each, the
\* innermost class enclosing it (None at none) and whether it stands at the
\* top level of the file.
RECURSIVE DeclsIn(_, _, _)
DeclsIn(body, cls, top) ==
    UNION {
        IF body[i].type = "ClassDef"
        THEN {[type |-> "ClassDef", name |-> body[i].name, cls |-> cls, top |-> top]}
             \cup DeclsIn(body[i].body, body[i].name, FALSE)
        ELSE IF body[i].type = "FunctionDef"
        THEN {[type |-> "FunctionDef", name |-> body[i].name, cls |-> cls, top |-> top]}
             \cup DeclsIn(body[i].body, cls, FALSE)
        ELSE {} : i \in DOMAIN body}
LastDecls == DeclsIn(LastFile.code.tree.body, None, TRUE)
RelsOf(kind) == {r \in result.relationships : r[2] = kind}
EntsOf(kind) == {e \in result.entities : e[1] = kind}

\* C3: a file whose parse fails with a syntax error contributes no records
\* and no failure leaves the walk; the returned bundle is the union of the
\* records of all the other files, wherever the failing file stands.
Alone(f) ==
    IF is_py(f) /\ f.readable
    THEN analyze(NewAnalyzer(filename_of(file_path(f))), f.code)
    ELSE EmptyResult
Parses(f) == ~(is_py(f) /\ f.readable /\ ~f.code.syntax_ok)
OthersUnion(field) ==
    UNION {Alone(repo[i])[field] : i \in {j \in DOMAIN repo : Parses(repo[j])}}
C3_SyntaxErrorSkipped ==
    /\ xpc # "crashed"
    /\ (xpc = "walk" /\ idx >= 1 /\ ~Parses(LastFile)) =>
            /\ result = EmptyResult
            /\ all_records = [f \in DOMAIN EmptyResult |->
                    UNION {Alone(repo[i])[f] : i \in {j \in 1..(idx - 1) : Parses(repo[j])}}]
    /\ xpc = "returned" =>
            bundle = [f \in DOMAIN EmptyResult |-> OthersUnion(f)]
\* A walk has returned whose first file does not parse and whose later files
\* gave records.
C3_Witness ==
    /\ xpc = "returned" /\ Len(repo) >= 3
    /\ ~Parses(repo[1]) /\ ~Parses(repo[3]) /\ Parses(repo[2])
    /\ bundle.entities # {}

IsRouteDecoration(d) ==
    /\ d.kind = "Call"
    /\ d.func.kind = "Attribute" /\ d.func.attr = Str("route")
    /\ d.func.value.kind = "Name"
    /\ Len(d.args) = 1 /\ d.args[1].kind = "Constant"
    /\ Len(d.keywords) = 1 /\ d.keywords[1].arg = Str("methods")
    /\ d.keywords[1].value.kind = "List"
    /\ LET elts == d.keywords[1].value.elts IN
          /\ \A i \in DOMAIN elts : elts[i].kind = "Constant"
          /\ \A i, j \in DOMAIN elts : i # j => elts[i] # elts[j]
\* The decorated functions of the file handled last.
RECURSIVE FunctionsIn(_)
FunctionsIn(body) ==
    UNION {(IF body[i].type = "FunctionDef" THEN {body[i]} ELSE {})
           \cup FunctionsIn(body[i].body) : i \in DOMAIN body}
RouteFunction(fn) ==
    /\ Analyzed
    /\ FunctionsIn(LastFile.code.tree.body) = {fn}
    /\ Len(fn.decorator_list) = 1
    /\ IsRouteDecoration(fn.decorator_list[1])
C10_RouteDecoration ==
    \A fn \in (IF Analyzed THEN FunctionsIn(LastFile.code.tree.body) ELSE {}) :
        RouteFunction(fn) =>
            LET d == fn.decorator_list[1]
                path == d.args[1].value
                ms == {e.value : e \in ToSet(d.keywords[1].value.elts)}
                n == Len(d.keywords[1].value.elts)
            IN  /\ EntsOf("API_Endpoint") = {<<"API_Endpoint", path, LastName>>}
                /\ RelsOf("EXPOSES") = {<<fn.name, "EXPOSES", path>>}
                /\ EntsOf("HTTP_Method") = {<<"HTTP_Method", m, path>> : m \in ms}
                /\ Cardinality(EntsOf("HTTP_Method")) = n
                /\ RelsOf("SUPPORTS") = {<<path, "SUPPORTS", m>> : m \in ms}
                /\ Cardinality(RelsOf("SUPPORTS")) = n
                /\ RelsOf("DECORATED_BY") = {}
\* The function decorated with methods=["GET", "POST"] was analyzed.
C10_Witness ==
    \E fn \in (IF Analyzed THEN FunctionsIn(LastFile.code.tree.body) ELSE {}) :
        /\ RouteFunction(fn)
        /\ fn.decorator_list[1].keywords[1].value.elts
              = <<Constant(Str("GET")), Constant(Str("POST"))>>
        /\ Cardinality(EntsOf("API_Endpoint")) = 1
        /\ Cardinality(RelsOf("EXPOSES")) = 1
        /\ Cardinality(EntsOf("HTTP_Method")) = 2
        /\ Cardinality(RelsOf("SUPPORTS")) = 2

\* ---- the loader ----
Contents(n) == <<n.label, n.name, n.file>>
NodeOf(st, id) == CHOOSE n \in st.nodes : n.id = id
\* A store up to the identities of its nodes.
View(st) ==
    [nodes |-> {Contents(n) : n \in st.nodes},
     count |-> Cardinality(st.nodes),
     edges |-> {<<Contents(NodeOf(st, e.src)), e.type, Contents(NodeOf(st, e.dst))>> :
                    e \in st.edges}]
NodesFor(st, e) ==
    {n \in st.nodes : n.label = e[1] /\ n.name = e[2] /\ n.file = e[3]}
AfterEntities ==
    \/ lpc \in {"relationships", "calls", "verify", "done"}
    \/ lpc = "raised" /\ attempted <= Len(entities)
AfterRelationships == lpc \in {"calls", "verify", "done"}

\* C1: a second load of the same bundle, right after a first one, leaves the
\* nodes and the edges of the store as the first load left them, whatever
\* the bundle and the store the first load began with.
C1_SecondLoadChangesNothing ==
    (run = 2 /\ mode = "again") =>
        /\ store.nodes = snapshot.nodes
        /\ store.edges = snapshot.edges
\* A second load has ended on a store that held a node before the first
\* load, which added nodes and edges to it.
C1_Witness ==
    /\ run = 2 /\ mode = "again" /\ lpc = "done"
    /\ store0.nodes # {}
    /\ Cardinality(store.nodes) >= Cardinality(store0.nodes) + 2
    /\ store.edges # {}
    /\ \E i \in DOMAIN entities : entities[i][1] = "Parameter"

\* C2: when an upsert fails the failure is caught: every entity,
\* relationship and call of the bundle is attempted and the load reaches its
\* verification step.
C2_FailureCaught ==
    LoadEnded =>
        /\ lpc = "done"
        /\ attempted = Len(entities) + Len(relationships) + Len(calls)

\* C6: the same records loaded in two orders from the same store give the
\* same nodes and the same edges.
C6_OrderIndependent ==
    (run = 2 /\ mode = "reordered" /\ LoadEnded) => View(store) = View(snapshot)

\* C7: a relationship whose kind is none of CONTAINS, IMPORTS, DEFINES gets
\* an edge of its kind between the nodes that carry its two names.
C7_UntypedFallback ==
    (run = 1 /\ AfterRelationships) =>
        \A i \in DOMAIN relationships :
            LET r == relationships[i] IN
            r[2] \notin {"CONTAINS", "IMPORTS", "DEFINES"} =>
                \A a \in Matching(store, {AnyLabel}, r[1]),
                   b \in Matching(store, {AnyLabel}, r[3]) :
                    [src |-> a.id, type |-> r[2], dst |-> b.id] \in store.edges

\* C8: after the entity step of a load into an empty store, every entity of
\* the bundle has exactly one node of its kind, name and scope.
C8_OneNodePerEntity ==
    (run = 1 /\ mode = "load" /\ store0.nodes = {} /\ AfterEntities) =>
        \A i \in DOMAIN entities : Cardinality(NodesFor(store, entities[i])) = 1

\* C9: when the relationship step of a load of an extracted bundle starts,
\* a File node named as the source exists for every CONTAINS relationship.
C9_ContainsHasFileSource ==
    (mode = "main" /\ lpc = "relationships") =>
        \A i \in DOMAIN relationships :
            relationships[i][2] = "CONTAINS" =>
                \E n \in store.nodes : n.label = "File" /\ n.name = relationships[i][1]

\* The name of the innermost declaration of the given type among the nodes
\* on the way from the root of the tree to the first k steps of path p (None
\* when there is none).
RECURSIVE Innermost(_, _, _)
Innermost(type, p, k) ==
    IF k < 0 THEN None
    ELSE LET n == NodeAt(ast_tree, SubSeq(p, 1, k)) IN
         IF n.type = type THEN n.name ELSE Innermost(type, p, k - 1)

\* What the function declarations of a body ought to be recorded as, in the
\* order of the walk: a Method of the innermost class around it, or a
\* Function of the file when no class is around it.
RECURSIVE FunctionRecords(_, _, _)
FunctionRecords(body, cls, filename) ==
    IF body = <<>> THEN <<>>
    ELSE LET n == Head(body)
             own == IF n.type # "FunctionDef" THEN <<>>
                    ELSE IF cls # None THEN << <<"Method", n.name, cls>> >>
                    ELSE << <<"Function", n.name, filename>> >>
             inner == FunctionRecords(n.body,
                          IF n.type = "ClassDef" THEN n.name ELSE cls, filename)
         IN  own \o inner \o FunctionRecords(Tail(body), cls, filename)
IsFunctionRecord(e) == e[1] \in {"Function", "Method"}

====
